---- MODULE Spec2Model ----
(***************************************************************************)
(* tempmail-python: the module-level functions of tempmail/__init__.py and *)
(* the OneSecMail class of tempmail/providers.py, with the memoization of  *)
(* tempmail/utils.py, run by one thread against the 1secmail server.       *)
(*                                                                         *)
(* Time is counted in half seconds (the provider sleeps 0.5 s, the module  *)
(* sleeps 1 s); the clock is what time.time() returns when it is read.     *)
(* A string with '@' in it is the sequence of its '@'-separated parts,     *)
(* which is what str.split('@') returns; an optional value is <<>> (None)  *)
(* or <<v>>.                                                               *)
(***************************************************************************)
EXTENDS Integers, Sequences, FiniteSets, TLC

\* ---------------------------------------------------------------- bounds
MaxTime == 2        \* the clock stops being advanced here (half seconds)
MaxMsgs == 1        \* messages the server receives
MaxClients == 1     \* OneSecMail objects the process constructs
MaxOps == 1         \* other calls of the library the process makes

\* ------------------------------------------------------------- constants
\* tempmail/__init__.py: DOMAINS
DOMAINS ==
    {"1secmail.com", "1secmail.org", "1secmail.net", "kzccv.com",
     "qiott.com", "wuuvo.com", "icznn.com", "ezztt.com"}

\* providers.py: inbox_update_interval = 0.5 s, in half seconds
inbox_update_interval == 1

\* __init__.py: time.sleep(1), in half seconds
module_sleep == 2

\* utils.py: functools.lru_cache applied without arguments keeps 128 entries
lru_maxsize == 128

\* ---------------------------------------------------------------- values
None == <<>>
Some(x) == <<x>>

\* Python truthiness of an optional int and of an optional str
TruthyInt(v) == v # None /\ v[1] # 0
TruthyStr(v) == v # None /\ v[1] # ""

\* seconds (the unit of the timeout argument) to half seconds
Units(sec) == 2 * sec

\* f'{username}@{domain}' and its inverse email.split('@')
Format(username, domain) == <<username, domain>>
Split(email) == email

\* utils.random_string(10): the values the model lets it produce
RandomStrings == {"qwertyuiop"}

\* what the callers pass
Usernames == {None, Some("bob")}
DomainArgs == {None, Some(""), Some("1secmail.com"), Some("evil.com")}
Emails == {<<"bob", "1secmail.com">>, <<"bob", "evil.com">>, <<"bob">>}
AddressArgs == {None} \cup {Some(e) : e \in Emails}
Timeouts == {None, Some(0), Some(1)}
\* "default" is lambda _: True; f1 is lambda m: m.get('body') == 'code'
Filters == {"default", "f1"}
Bodies == {"code", "spam"}

\* the mailbox the server delivers to, and the server's getDomainList answers
Box == <<"bob", "1secmail.com">>
ServerDomainLists == {<<"1secmail.com">>}

\* what one HTTP GET ends in: a 200 answer, a transport exception, an error
\* status with an HTML body, an error status with a JSON object as body
Responses == {"ok", "conn", "http_html", "http_json"}

\* resp answers the request a step sends; a step that sends none is given "ok"
Answers(sent, resp) == sent \/ resp = "ok"

\* a message record (Message dataclass / message dict); inst is the
\* _mail_instance of the dataclass, 0 for the module's dicts
NoMsg == [kind |-> "none", id |-> 0, body |-> "", inst |-> 0]
ErrBody == [kind |-> "error", id |-> 0, body |-> "", inst |-> 0]
Msg(id, body, inst) == [kind |-> "message", id |-> id, body |-> body, inst |-> inst]

\* the filter argument applied to a fetched record
Pred(f, m) ==
    IF f = "default" THEN TRUE ELSE m.kind = "message" /\ m.body = "code"

Range(s) == {s[k] : k \in DOMAIN s}

\* ----------------------------------------------------------------- state
VARIABLES
    now,            \* the clock, counted from the start of the current call
    content,        \* server: content[id] is the body of message id of Box
    server_domains, \* server: the answer to getDomainList
    clients,        \* the OneSecMail objects, by identity: [username, domain]
    domains_cache,  \* lru_cache of OneSecMail.get_domains
    message_cache,  \* lru_cache of OneSecMail.get_message, least recent first
    check_cache,    \* functools.cache of _check_message
    call,           \* the wait_for_message call that is running
    result,         \* how the last call ended, as its caller holds it
    contacted,      \* domains the current call sent a mailbox request for
    objects_max,    \* OneSecMail objects the process constructs at most
    calls_left      \* other calls the process will still make

vars == <<now, content, server_domains, clients, domains_cache, message_cache,
          check_cache, call, result, contacted, objects_max,
          calls_left>>

Ids == 1 .. MaxMsgs

\* the server's answer to getMessages: newest first
Listing(email) ==
    IF email = Box THEN [k \in 1 .. Len(content) |-> Len(content) + 1 - k]
    ELSE <<>>

IdleCall ==
    [kind |-> "idle", pc |-> "-", email |-> <<>>, inst |-> 0, timeout |-> None,
     filter |-> "default", timeout_time |-> None, start |-> 0, inbox |-> <<>>,
     i |-> 0, sleeps |-> 0, lastList |-> -1, missed |-> FALSE,
     pre |-> FALSE, err |-> "", id0 |-> 0]

\* how a call ended: the outcome is "return" or the exception raised, value
\* the message returned, addr the address made, arg the domain asked for,
\* net whether a request was sent, err the error response a wait call met,
\* lastList when its last listing began, prev what an earlier get_message of
\* the same address and id returned
NoResult ==
    [op |-> "none", impl |-> "-", outcome |-> "-", value |-> NoMsg,
     addr |-> <<>>, arg |-> None, net |-> FALSE, prev |-> NoMsg,
     email |-> <<>>, inst |-> 0, timeout |-> None, filter |-> "default",
     start |-> 0, lastList |-> -1, id0 |-> 0, err |-> ""]

Init ==
    /\ now = 0
    /\ content = <<>>
    /\ server_domains \in ServerDomainLists
    /\ clients = <<>>
    /\ domains_cache = None
    /\ message_cache = <<>>
    /\ check_cache = {}
    /\ call = IdleCall
    /\ result = NoResult
    /\ contacted = {}
    /\ objects_max = MaxClients
    /\ calls_left = MaxOps

\* ------------------------------------------------------------ environment
\* the server receives a message for Box, before a call or during one
Deliver(body) ==
    /\ call.kind # "done"
    /\ Len(content) < MaxMsgs
    /\ content' = Append(content, body)
    /\ UNCHANGED <<now, server_domains, clients, domains_cache,
                   message_cache, check_cache, call, result,
                   contacted, objects_max, calls_left>>

\* time passes while wait_for_message is blocked in a network round trip or
\* between two statements; no other call reads the clock
Tick ==
    /\ call.kind \in {"mod", "cls"}
    /\ now < MaxTime
    /\ now' = now + 1
    /\ UNCHANGED <<content, server_domains, clients, domains_cache,
                   message_cache, check_cache, call, result,
                   contacted, objects_max, calls_left>>

\* the record the server holds for a message id of an address, if any
HasMessage(email, id) == email = Box /\ id \in 1 .. Len(content)

\* a call ends: the caller holds r in place of what it kept of the call before
DoneCall == [IdleCall EXCEPT !.kind = "done"]

Finish(r) ==
    /\ result' = r
    /\ call' = DoneCall

\* what the caller keeps of a call when it goes on: the message a
\* wait_for_message call returned, and how it was asked for
Kept(r) ==
    IF r.op = "wait" /\ r.outcome = "return"
    THEN [NoResult EXCEPT !.op = "wait", !.impl = r.impl, !.outcome = "return",
            !.value = r.value, !.email = r.email, !.inst = r.inst,
            !.filter = r.filter, !.id0 = r.id0]
    ELSE NoResult

\* the caller goes on to its next call, from which time and the requests
\* sent are counted anew
Resume ==
    /\ call.kind = "done"
    /\ call' = IdleCall
    /\ result' = Kept(result)
    /\ now' = 0
    /\ contacted' = {}
    /\ UNCHANGED <<content, server_domains, clients, domains_cache,
                   message_cache, check_cache, objects_max, calls_left>>

\* ------------------------------------------------- tempmail/__init__.py
\* the domain test left out: every domain passes
ModDomainOkAny(domain) == TRUE

\* `domain not in DOMAINS` is false
ModDomainOk(domain) == domain \in DOMAINS

\* get_email(username, domain)
GetEmail(username, domain) ==
    /\ call.kind = "idle" /\ calls_left > 0
    /\ calls_left' = calls_left - 1
    /\ \E r \in RandomStrings, d \in DOMAINS :
         LET u1 == IF username = None THEN r ELSE username[1]
             d1 == IF domain = None THEN d ELSE domain[1]
         IN Finish([NoResult EXCEPT !.op = "get_email", !.impl = "mod",
                       !.outcome = "return", !.addr = Format(u1, d1),
                       !.arg = domain])
    /\ UNCHANGED <<now, content, server_domains, clients, domains_cache,
                   message_cache, check_cache, contacted, objects_max>>

\* what requests.get(...).json() of the module gives for a getMessages request
ModListOutcome(resp) ==
    CASE resp = "conn" -> "ConnectionError"
      [] resp = "http_html" -> "JSONDecodeError"
      [] OTHER -> "return"

\* get_inbox(email)
ModGetInbox(email, resp) ==
    /\ call.kind = "idle" /\ calls_left > 0
    /\ calls_left' = calls_left - 1
    /\ LET parts == Split(email)
           base == [NoResult EXCEPT !.op = "get_inbox", !.impl = "mod",
                      !.arg = IF Len(parts) = 2 THEN Some(parts[2]) ELSE None]
       IN IF Len(parts) # 2 \/ ~ModDomainOk(parts[2])
          THEN /\ Finish([base EXCEPT !.outcome = "ValueError"])
               /\ UNCHANGED contacted
          ELSE /\ contacted' = contacted \cup {parts[2]}
               /\ Finish([base EXCEPT
                     !.outcome = ModListOutcome(resp), !.net = TRUE,
                     !.value = IF resp = "http_json" THEN ErrBody ELSE NoMsg])
    /\ UNCHANGED <<now, content, server_domains, clients, domains_cache,
                   message_cache, check_cache, objects_max>>

\* what get_message(email, id) of the module ends in once the domain is
\* accepted: the parsed JSON body whatever the status, or the exception of
\* requests.get / resp.json()
ModRead(email, id, resp) ==
    CASE resp = "conn" -> [outcome |-> "ConnectionError", msg |-> NoMsg]
      [] resp = "http_html" -> [outcome |-> "JSONDecodeError", msg |-> NoMsg]
      [] resp = "http_json" -> [outcome |-> "return", msg |-> ErrBody]
      [] OTHER ->
           IF HasMessage(email, id)
           THEN [outcome |-> "return", msg |-> Msg(id, content[id], 0)]
           ELSE [outcome |-> "JSONDecodeError", msg |-> NoMsg]

\* get_message(email, id)
ModGetMessage(email, id, resp) ==
    /\ call.kind = "idle" /\ calls_left > 0
    /\ calls_left' = calls_left - 1
    /\ LET parts == Split(email)
           base == [NoResult EXCEPT !.op = "get_message", !.impl = "mod",
                      !.arg = IF Len(parts) = 2 THEN Some(parts[2]) ELSE None]
       IN IF Len(parts) # 2 \/ ~ModDomainOk(parts[2])
          THEN /\ Finish([base EXCEPT !.outcome = "ValueError"])
               /\ UNCHANGED contacted
          ELSE /\ contacted' = contacted \cup {parts[2]}
               /\ LET r == ModRead(email, id, resp)
                  IN Finish([base EXCEPT !.outcome = r.outcome, !.net = TRUE,
                                         !.value = r.msg])
    /\ UNCHANGED <<now, content, server_domains, clients, domains_cache,
                   message_cache, check_cache, objects_max>>

\* some message of a listing satisfies the filter, by what the server holds
MatchIn(list, f) ==
    \E k \in DOMAIN list : Pred(f, Msg(list[k], content[list[k]], 0))

\* timeout_time = time.time() + timeout if timeout else None
ModTimeoutTime(timeout, t) ==
    IF TruthyInt(timeout) THEN Some(t + Units(timeout[1])) ELSE None

\* while timeout is None or time.time() < timeout_time: comparing a float
\* with None raises TypeError
ModLoopTest(timeout, timeout_time, t) ==
    IF timeout = None THEN "poll"
    ELSE IF timeout_time = None THEN "TypeError"
    ELSE IF t < timeout_time[1] THEN "poll"
    ELSE "TimeoutError"

\* the running call ends with outcome o and value v
EndWait(c, o, v) ==
    Finish([NoResult EXCEPT !.op = "wait", !.impl = c.kind, !.outcome = o,
              !.value = v, !.email = c.email, !.inst = c.inst,
              !.arg = IF Len(Split(c.email)) = 2 THEN Some(Split(c.email)[2])
                      ELSE None,
              !.timeout = c.timeout, !.filter = c.filter, !.start = c.start,
              !.lastList = c.lastList, !.id0 = c.id0,
              !.err = c.err, !.net = c.lastList >= 0])

\* wait_for_message(email, timeout, filter): lines 78-83
ModWaitStart(email, timeout, filter) ==
    /\ call.kind = "idle" /\ calls_left > 0
    /\ calls_left' = calls_left - 1
    /\ LET parts == Split(email)
           c == [IdleCall EXCEPT !.kind = "mod", !.pc = "loop",
                    !.email = email, !.timeout = timeout, !.filter = filter,
                    !.timeout_time = ModTimeoutTime(timeout, now),
                    !.start = now, !.id0 = Len(content),
                    !.pre = MatchIn(Listing(email), filter)]
       IN IF Len(parts) # 2 \/ ~ModDomainOk(parts[2])
          THEN EndWait([c EXCEPT !.pc = "-", !.pre = FALSE], "ValueError", NoMsg)
          ELSE /\ call' = c
               /\ UNCHANGED result
    /\ UNCHANGED <<now, content, server_domains, clients, domains_cache,
                   message_cache, check_cache, contacted, objects_max>>

\* the loop test and the getMessages request of one poll cycle: lines 84-88
ModLoop(resp) ==
    /\ call.kind = "mod" /\ call.pc = "loop"
    /\ Answers(ModLoopTest(call.timeout, call.timeout_time, now) = "poll", resp)
    /\ LET test == ModLoopTest(call.timeout, call.timeout_time, now)
           c == [call EXCEPT !.lastList = now]
       IN IF test # "poll"
          THEN /\ EndWait(call, test, NoMsg)
               /\ UNCHANGED contacted
          ELSE /\ contacted' = contacted \cup {Split(call.email)[2]}
               /\ IF resp = "ok"
                  THEN /\ call' = [c EXCEPT !.inbox = Listing(call.email),
                                 !.i = 1,
                                 !.pc = IF Listing(call.email) = <<>>
                                        THEN "sleep" ELSE "iter"]
                       /\ UNCHANGED result
                  ELSE EndWait([c EXCEPT !.err = resp],
                               IF resp = "http_json" THEN "TypeError"
                               ELSE ModListOutcome(resp), NoMsg)
    /\ UNCHANGED <<now, content, server_domains, clients, domains_cache,
                   message_cache, check_cache, objects_max, calls_left>>

\* the entry of the _check_message cache for a key, as a set
CheckHit(key) == {e \in check_cache : e.key = key}

\* one pass of `for msg_info in resp`: lines 88-91, with _check_message
ModIter(resp) ==
    /\ call.kind = "mod" /\ call.pc = "iter"
    /\ Answers(CheckHit(<<call.email, call.inbox[call.i], call.filter>>) = {},
               resp)
    /\ LET id == call.inbox[call.i]
           key == <<call.email, id, call.filter>>
           hit == CheckHit(key)
           r == ModRead(call.email, id, resp)
           e == IF hit # {} THEN CHOOSE x \in hit : TRUE
                ELSE [key |-> key, status |-> Pred(call.filter, r.msg),
                      msg |-> r.msg]
           c == [call EXCEPT
                   !.err = IF hit = {} /\ resp # "ok" THEN resp ELSE @]
           last == call.i = Len(call.inbox)
       IN IF hit = {} /\ r.outcome # "return"
          THEN /\ EndWait(c, r.outcome, NoMsg)
               /\ UNCHANGED check_cache
          ELSE /\ check_cache' = check_cache \cup {e}
               /\ IF e.status
                  THEN EndWait(c, "return", e.msg)
                  ELSE /\ call' = [c EXCEPT
                            !.i = IF last THEN @ ELSE @ + 1,
                            !.pc = IF last THEN "sleep" ELSE "iter",
                            !.missed = IF last
                                       THEN @ \/ MatchIn(call.inbox, call.filter)
                                       ELSE @]
                       /\ UNCHANGED result
    /\ contacted' = IF CheckHit(<<call.email, call.inbox[call.i], call.filter>>) = {}
                    THEN contacted \cup {Split(call.email)[2]} ELSE contacted
    /\ UNCHANGED <<now, content, server_domains, clients, domains_cache,
                   message_cache, objects_max, calls_left>>

\* time.sleep(1): line 93
ModSleep ==
    /\ call.kind = "mod" /\ call.pc = "sleep"
    /\ now + module_sleep <= MaxTime
    /\ now' = now + module_sleep
    /\ call' = [call EXCEPT !.pc = "loop", !.sleeps = @ + 1]
    /\ UNCHANGED <<content, server_domains, clients, domains_cache,
                   message_cache, check_cache, result, contacted,
                   objects_max, calls_left>>

\* ---------------------------------------------------- tempmail/utils.py
\* functools.lru_cache: the positions of a key, a hit moved to the most
\* recent end, a new entry stored with the least recent one evicted
LruFind(cache, key) == {k \in DOMAIN cache : cache[k].key = key}

LruTouch(cache, k) ==
    Append(SubSeq(cache, 1, k - 1) \o SubSeq(cache, k + 1, Len(cache)), cache[k])

LruPut(cache, e) ==
    LET c == Append(cache, e)
    IN IF Len(c) > lru_maxsize THEN Tail(c) ELSE c

\* ------------------------------------------------ tempmail/providers.py
\* what raise_for_status() and the transport make of a response that is
\* not a 200 answer
ClsError(resp) == IF resp = "conn" THEN "ConnectionError" ELSE "HTTPError"

\* OneSecMail.get_domains(), memoized with no arguments
GetDomains(cache, resp) ==
    IF cache # None
    THEN [outcome |-> "return", list |-> cache[1], cache |-> cache]
    ELSE IF resp = "ok"
    THEN [outcome |-> "return", list |-> server_domains,
          cache |-> Some(server_domains)]
    ELSE [outcome |-> ClsError(resp), list |-> <<>>, cache |-> cache]

\* `domain is not None and domain not in self.get_domains()` is false
ClsDomainOk(domain, list) == domain = None \/ domain[1] \in Range(list)

\* OneSecMail.address
Address(inst) == Format(clients[inst].username, clients[inst].domain)

\* OneSecMail.__init__(address, username, domain)
ClsInit(address, username, domain, resp) ==
    /\ call.kind = "idle" /\ Len(clients) < objects_max
    /\ LET bad == address # None /\ Len(Split(address[1])) # 2
           u == IF address # None /\ ~bad THEN Some(Split(address[1])[1])
                ELSE username
           d == IF address # None /\ ~bad THEN Some(Split(address[1])[2])
                ELSE domain
           g == GetDomains(domains_cache, resp)
           base == [NoResult EXCEPT !.op = "init", !.impl = "cls", !.arg = d]
       IN IF bad
          THEN /\ Finish([base EXCEPT !.outcome = "ValueError", !.arg = None])
               /\ UNCHANGED <<clients, domains_cache>>
          ELSE /\ domains_cache' = g.cache
               /\ IF g.outcome # "return"
                  THEN /\ Finish([base EXCEPT !.outcome = g.outcome,
                                              !.net = TRUE])
                       /\ UNCHANGED clients
                  ELSE IF ~ClsDomainOk(d, g.list)
                  THEN /\ Finish([base EXCEPT !.outcome = "ValueError"])
                       /\ UNCHANGED clients
                  ELSE IF ~TruthyStr(d) /\ g.list = <<>>
                  THEN /\ Finish([base EXCEPT !.outcome = "IndexError"])
                       /\ UNCHANGED clients
                  ELSE \E r \in RandomStrings,
                          c \in IF TruthyStr(d) THEN {d[1]} ELSE Range(g.list) :
                       LET o == [username |-> IF TruthyStr(u) THEN u[1] ELSE r,
                                 domain |-> c]
                       IN /\ clients' = Append(clients, o)
                          /\ Finish([base EXCEPT !.outcome = "return",
                                !.addr = Format(o.username, o.domain)])
    /\ UNCHANGED <<now, content, server_domains, message_cache, check_cache,
                   contacted, objects_max, calls_left>>

\* OneSecMail.get_inbox()
ClsGetInbox(inst, resp) ==
    /\ call.kind = "idle" /\ calls_left > 0
    /\ inst \in DOMAIN clients
    /\ calls_left' = calls_left - 1
    /\ contacted' = contacted \cup {clients[inst].domain}
    /\ Finish([NoResult EXCEPT !.op = "get_inbox", !.impl = "cls",
                  !.arg = Some(clients[inst].domain), !.net = TRUE,
                  !.outcome = IF resp = "ok" THEN "return" ELSE ClsError(resp)])
    /\ UNCHANGED <<now, content, server_domains, clients, domains_cache,
                   message_cache, check_cache, objects_max>>

\* OneSecMail.get_message(id) behind utils.cache: the key is (self, id),
\* self compared by identity; an exception is not stored
ClsFetch(cache, inst, id, resp) ==
    LET key == <<inst, id>>
        hit == LruFind(cache, key)
        k == CHOOSE x \in hit : TRUE
        m == Msg(id, content[id], inst)
    IN IF hit # {}
       THEN [outcome |-> "return", msg |-> cache[k].val,
             cache |-> LruTouch(cache, k), net |-> FALSE]
       ELSE IF resp # "ok"
       THEN [outcome |-> ClsError(resp), msg |-> NoMsg, cache |-> cache,
             net |-> TRUE]
       ELSE IF ~HasMessage(Address(inst), id)
       THEN [outcome |-> "JSONDecodeError", msg |-> NoMsg, cache |-> cache,
             net |-> TRUE]
       ELSE [outcome |-> "return", msg |-> m,
             cache |-> LruPut(cache, [key |-> key, val |-> m]), net |-> TRUE]

\* a direct call of OneSecMail.get_message(id)
ClsGetMessage(inst, id, resp) ==
    /\ call.kind = "idle" /\ calls_left > 0
    /\ inst \in DOMAIN clients
    /\ calls_left' = calls_left - 1
    /\ LET r == ClsFetch(message_cache, inst, id, resp)
           own == {k \in DOMAIN message_cache :
                     message_cache[k].key = <<inst, id>>}
           same == {k \in DOMAIN message_cache :
                      /\ Address(message_cache[k].key[1]) = Address(inst)
                      /\ message_cache[k].key[2] = id}
           before == IF own # {} THEN message_cache[CHOOSE k \in own : TRUE].val
                     ELSE IF same # {}
                     THEN message_cache[CHOOSE k \in same : TRUE].val
                     ELSE NoMsg
       IN /\ Answers(r.net, resp)
          /\ message_cache' = r.cache
          /\ contacted' = IF r.net THEN contacted \cup {clients[inst].domain}
                          ELSE contacted
          /\ Finish([NoResult EXCEPT !.op = "get_message", !.impl = "cls",
                        !.arg = Some(clients[inst].domain),
                        !.outcome = r.outcome,
                        !.value = r.msg, !.net = r.net,
                        !.prev = before])
    /\ UNCHANGED <<now, content, server_domains, clients, domains_cache,
                   check_cache, objects_max>>

\* timeout_time = time.time() + timeout if timeout is not None else None
ClsTimeoutTime(timeout, t) ==
    IF timeout # None THEN Some(t + Units(timeout[1])) ELSE None

\* the loop test with <= in place of <: one more cycle at the deadline
ClsLoopTestLate(timeout, timeout_time, t) ==
    IF timeout = None \/ t <= timeout_time[1] THEN "poll" ELSE "TimeoutError"

\* while timeout is None or time.time() < timeout_time
ClsLoopTest(timeout, timeout_time, t) ==
    IF timeout = None \/ t < timeout_time[1] THEN "poll" ELSE "TimeoutError"

\* OneSecMail.wait_for_message(timeout, filter): line 67
ClsWaitStart(inst, timeout, filter) ==
    /\ call.kind = "idle" /\ calls_left > 0
    /\ inst \in DOMAIN clients
    /\ calls_left' = calls_left - 1
    /\ call' = [IdleCall EXCEPT !.kind = "cls", !.pc = "loop",
                   !.email = Address(inst), !.inst = inst,
                   !.timeout = timeout, !.filter = filter,
                   !.timeout_time = ClsTimeoutTime(timeout, now),
                   !.start = now, !.id0 = Len(content),
                   !.pre = MatchIn(Listing(Address(inst)), filter)]
    /\ UNCHANGED <<now, content, server_domains, clients, domains_cache,
                   message_cache, check_cache, result, contacted,
                   objects_max>>

\* the loop test and self.get_inbox() of one poll cycle: lines 69-70
ClsLoop(resp) ==
    /\ call.kind = "cls" /\ call.pc = "loop"
    /\ Answers(ClsLoopTest(call.timeout, call.timeout_time, now) = "poll", resp)
    /\ LET test == ClsLoopTest(call.timeout, call.timeout_time, now)
           c == [call EXCEPT !.lastList = now]
       IN IF test # "poll"
          THEN /\ EndWait(call, test, NoMsg)
               /\ UNCHANGED contacted
          ELSE /\ contacted' = contacted \cup {clients[call.inst].domain}
               /\ IF resp = "ok"
                  THEN /\ call' = [c EXCEPT !.inbox = Listing(call.email),
                                 !.i = 1,
                                 !.pc = IF Listing(call.email) = <<>>
                                        THEN "sleep" ELSE "iter"]
                       /\ UNCHANGED result
                  ELSE EndWait([c EXCEPT !.err = resp], ClsError(resp), NoMsg)
    /\ UNCHANGED <<now, content, server_domains, clients, domains_cache,
                   message_cache, check_cache, objects_max, calls_left>>

\* one pass of `for msg_info in inbox`: lines 71-73; msg_info.message is
\* read once for the filter (resp) and once more for the return (resp2)
ClsIter(resp, resp2) ==
    /\ call.kind = "cls" /\ call.pc = "iter"
    /\ LET id == call.inbox[call.i]
           r == ClsFetch(message_cache, call.inst, id, resp)
           r2 == ClsFetch(r.cache, call.inst, id, resp2)
           hold == r.outcome = "return" /\ Pred(call.filter, r.msg)
           f == IF hold THEN r2 ELSE r
           c == [call EXCEPT
                   !.err = IF r.net /\ resp # "ok" THEN resp
                           ELSE IF hold /\ r2.net /\ resp2 # "ok" THEN resp2
                           ELSE @]
           last == call.i = Len(call.inbox)
       IN /\ Answers(r.net, resp)
          /\ Answers(hold /\ r2.net, resp2)
          /\ message_cache' = f.cache
          /\ contacted' = IF r.net \/ (hold /\ r2.net)
                          THEN contacted \cup {clients[call.inst].domain}
                          ELSE contacted
          /\ IF f.outcome # "return"
             THEN EndWait(c, f.outcome, NoMsg)
             ELSE IF hold
             THEN EndWait(c, "return", f.msg)
             ELSE /\ call' = [c EXCEPT
                       !.i = IF last THEN @ ELSE @ + 1,
                       !.pc = IF last THEN "sleep" ELSE "iter",
                       !.missed = IF last
                                  THEN @ \/ MatchIn(call.inbox, call.filter)
                                  ELSE @]
                  /\ UNCHANGED result
    /\ UNCHANGED <<now, content, server_domains, clients, domains_cache,
                   check_cache, objects_max, calls_left>>

\* time.sleep(OneSecMail.inbox_update_interval): line 74
ClsSleep ==
    /\ call.kind = "cls" /\ call.pc = "sleep"
    /\ now + inbox_update_interval <= MaxTime
    /\ now' = now + inbox_update_interval
    /\ call' = [call EXCEPT !.pc = "loop", !.sleeps = @ + 1]
    /\ UNCHANGED <<content, server_domains, clients, domains_cache,
                   message_cache, check_cache, result, contacted,
                   objects_max, calls_left>>

\* ------------------------------------------------------------------ Next
Next ==
    \/ \E b \in Bodies : Deliver(b)
    \/ Tick
    \/ \E u \in Usernames, d \in DomainArgs : GetEmail(u, d)
    \/ \E e \in Emails, resp \in Responses : ModGetInbox(e, resp)
    \/ \E e \in Emails, id \in Ids, resp \in Responses : ModGetMessage(e, id, resp)
    \/ \E e \in Emails, t \in Timeouts, f \in Filters : ModWaitStart(e, t, f)
    \/ \E resp \in Responses : ModLoop(resp)
    \/ \E resp \in Responses : ModIter(resp)
    \/ ModSleep
    \/ \E a \in AddressArgs, u \in Usernames, d \in DomainArgs, resp \in Responses :
         ClsInit(a, u, d, resp)
    \/ \E inst \in DOMAIN clients, resp \in Responses : ClsGetInbox(inst, resp)
    \/ \E inst \in DOMAIN clients, id \in Ids, resp \in Responses :
         ClsGetMessage(inst, id, resp)
    \/ \E inst \in DOMAIN clients, t \in Timeouts, f \in Filters :
         ClsWaitStart(inst, t, f)
    \/ \E resp \in Responses : ClsLoop(resp)
    \/ \E resp, resp2 \in Responses : ClsIter(resp, resp2)
    \/ ClsSleep
    \/ Resume

\* a process that constructs MaxClients objects and makes MaxOps other calls
Spec == Init /\ [][Next]_vars

\* a process that constructs one object more and makes one call more
InitTwice ==
    /\ now = 0
    /\ content = <<>>
    /\ server_domains \in ServerDomainLists
    /\ clients = <<>>
    /\ domains_cache = None
    /\ message_cache = <<>>
    /\ check_cache = {}
    /\ call = IdleCall
    /\ result = NoResult
    /\ contacted = {}
    /\ objects_max = MaxClients + 1
    /\ calls_left = MaxOps + 1

SpecTwice == InitTwice /\ [][Next]_vars

\* ---------------------------------------------------------------- claims
Running == call.kind \in {"mod", "cls"}
Done == call.kind = "done"

\* a step in which the running wait_for_message call returns or raises
Ends == Running /\ call'.kind = "done"

\* a finished wait_for_message call that was given a usable address
WaitDone ==
    /\ Done /\ result.op = "wait"
    /\ result.impl = "mod" => result.arg # None /\ result.arg[1] \in DOMAINS

\* call start + timeout, for a call with a timeout
Deadline(c) == c.start + Units(c.timeout[1])

\* the message of a listed id as the server holds it, fetched through inst
Held(id, inst) == Msg(id, content[id], inst)

\* C1: wait_for_message with timeout 0 on an address whose inbox is empty
\* raises TimeoutError and nothing else, without sleeping, in the module
\* function and in the OneSecMail method alike.
C1_TimeoutZeroEmptyInbox ==
    /\ Running /\ call.timeout = Some(0) /\ content = <<>>
         => call.sleeps = 0 /\ call.pc # "sleep"
    /\ WaitDone /\ result.timeout = Some(0) /\ content = <<>>
         => result.outcome = "TimeoutError"

\* C2: an address get_email returns has its domain in DOMAINS, and the domain
\* of every constructed OneSecMail object is in get_domains().
C2_GeneratedDomainAllowed ==
    /\ Done /\ result.op = "get_email" /\ result.outcome = "return"
         => Split(result.addr)[2] \in DOMAINS
    /\ \A i \in DOMAIN clients :
         domains_cache # None /\ clients[i].domain \in Range(domains_cache[1])

\* C3: a get_message of a message id of an address that was fetched before
\* returns the record the earlier fetch returned and sends no request.
C3_SecondFetchIsMemoized ==
    Done /\ result.op = "get_message" /\ result.impl = "cls"
         /\ result.outcome = "return" /\ result.prev # NoMsg
      => result.value = result.prev /\ ~result.net

\* C4: wait_for_message downloads a message id of an address at most once in
\* the life of the process. Every entry of the _check_message cache is stored
\* by the download that produced its record, so no two entries hold
\* downloaded records of the same address and id.
C4_DownloadedAtMostOnce ==
    \A e1, e2 \in check_cache :
       /\ e1.key[1] = e2.key[1] /\ e1.key[2] = e2.key[2]
       /\ e1.msg.kind = "message" /\ e2.msg.kind = "message"
       => e1 = e2

\* C5: what wait_for_message returns is the first message of the cycle's
\* listing, in listing order, that satisfies the filter, and no earlier cycle
\* of the call listed a message that satisfies it (so a match at the head of
\* the first listing is returned with no further listing and no sleep).
C5_ReturnsFirstMatch ==
    [][Ends /\ result'.outcome = "return" =>
         /\ ~call.missed
         /\ \E k \in DOMAIN call.inbox :
              /\ Pred(call.filter, Held(call.inbox[k], call.inst))
              /\ \A j \in 1 .. k - 1 :
                   ~Pred(call.filter, Held(call.inbox[j], call.inst))
              /\ result'.value = Held(call.inbox[k], call.inst)]_vars

\* C6: a wait_for_message call with a finite timeout whose network calls all
\* returned and that found no match ends with TimeoutError; a call without
\* timeout never ends with TimeoutError.
C6_FiniteTimeoutEndsInTimeoutError ==
    WaitDone /\ result.err = "" =>
       /\ result.timeout # None /\ result.outcome # "return"
            => result.outcome = "TimeoutError"
       /\ result.timeout = None => result.outcome # "TimeoutError"

\* C8: an error response to a listing or a fetch ends the running
\* wait_for_message call with the exception of the HTTP client (the call does
\* not go on, return or time out), and no record of a failed fetch is kept.
C8_ErrorsPropagate ==
    /\ Running => call.err = ""
    /\ Done /\ result.op = "wait" /\ result.err # ""
         => result.outcome \in {"ConnectionError", "HTTPError", "JSONDecodeError"}
    /\ \A e \in check_cache : e.msg.kind = "message"

\* C10: a message the inbox listed when the call began and that satisfies
\* the filter is returned by the first poll cycle, and of two consecutive
\* calls with the same filter on an unchanged inbox the second returns what
\* the first returned.
C10_OldMessagesCount ==
    [][/\ ~(/\ Running /\ call.pre /\ call.sleeps = 0
            /\ call'.kind = call.kind /\ call'.pc = "sleep")
       /\ Ends /\ call.pre /\ call.sleeps = 0 /\ result'.outcome = "return"
            => \E k \in DOMAIN call.inbox :
                  /\ Pred(call.filter, Held(call.inbox[k], call.inst))
                  /\ result'.value = Held(call.inbox[k], call.inst)
       /\ Ends /\ result'.outcome = "return" /\ result.op = "wait"
            /\ result.impl = call.kind /\ result.email = call.email
            /\ result.inst = call.inst /\ result.filter = call.filter
            /\ result.id0 = Len(content)
            => result'.value = result.value]_vars

\* C7: no inbox or message request is sent for a domain outside the
\* allow-list: the module functions raise ValueError for it before any
\* request, and the constructor raises ValueError, so that every object's
\* domain is in get_domains().
C7_InvalidDomainRejected ==
    /\ contacted \subseteq
         DOMAINS \cup (IF domains_cache = None THEN {} ELSE Range(domains_cache[1]))
    /\ Done /\ result.impl = "mod"
            /\ result.op \in {"get_inbox", "get_message", "wait"}
            /\ (result.arg = None \/ result.arg[1] \notin DOMAINS)
         => result.outcome = "ValueError" /\ ~result.net
    /\ Done /\ result.op = "init" /\ result.arg # None /\ domains_cache # None
            /\ result.arg[1] \notin Range(domains_cache[1])
         => result.outcome = "ValueError"
    /\ \A i \in DOMAIN clients :
         domains_cache # None /\ clients[i].domain \in Range(domains_cache[1])

C7_Witness ==
    /\ Done /\ result.op = "wait" /\ result.impl = "mod"
    /\ result.arg = Some("evil.com") /\ result.outcome = "ValueError"
    /\ "evil.com" \notin contacted

\* C9: with a timeout, a poll cycle (its inbox listing) starts only at a time
\* before call start + timeout, and TimeoutError is raised only by the loop
\* test between two cycles, at or after that time: a fetch or a filter in a
\* cycle that began in time is never cut short.
C9_DeadlineAtCycleBoundary ==
    [][/\ Running /\ call.timeout # None
            /\ (IF Ends THEN result'.lastList ELSE call'.lastList) > call.lastList
            => now < Deadline(call)
       /\ Ends /\ result'.outcome = "TimeoutError"
            => call.pc = "loop" /\ call.timeout # None
               /\ now >= Deadline(call)]_vars

\* a message is returned by a cycle during which the deadline went by
C9_Witness ==
    /\ Done /\ result.op = "wait" /\ result.outcome = "return"
    /\ result.timeout # None /\ result.net
    /\ now >= result.start + Units(result.timeout[1])

====
